---- MODULE Spec2Model ----
(*************************************************************************)
(* ClipboardWatcher (crates/server/src/watcher/mod.rs).                   *)
(*                                                                       *)
(* One constructor thread (ClipboardWatcher::new and, once it returned,  *)
(* the control surface enable/disable/toggle/subscribe), one background  *)
(* task (the async block handed to task::spawn), and the environment:    *)
(* the backend that emits change notifications and answers load(kind),   *)
(* and the owners of broadcast receivers.                                *)
(*************************************************************************)
EXTENDS Integers, Sequences, FiniteSets, TLC

\* ---------------------------------------------------------------- bounds
MaxNotifs == 2          \* notifications the backend emits in one run
MaxReceivers == 1       \* receivers handed out by subscribe() at one time
MaxFilterMinSize == 1   \* largest filter_min_size tried
MaxChanNotifs == 18     \* notifications in a run that follows a receiver

\* ----------------------------------------------------------------- types
Clipboard == "Clipboard"
Primary == "Primary"
ClipboardKind == {Clipboard, Primary}

\* Clipboard contents are byte strings; data.len() is Len.
Contents == {<<"a">>, <<"a", "b">>, <<"b", "a">>}

\* backend::Error variants the watcher names, and any other one.
EmptyClipboard == "EmptyClipboard"
MatchMime == "MatchMime"
UnknownContentType == "UnknownContentType"
UnsupportedClipboardKind == "UnsupportedClipboardKind"
OtherBackendError == "Io"
BackendErrors ==
    {EmptyClipboard, MatchMime, UnknownContentType, UnsupportedClipboardKind,
     OtherBackendError}

\* Result<Vec<u8>, BackendError> of backend.load(kind).
Ok(data) == [tag |-> "Ok", data |-> data]
Err(e) == [tag |-> e, data |-> <<>>]
LoadResults == {Ok(c) : c \in Contents} \cup {Err(e) : e \in BackendErrors}
NoLoad == [tag |-> "None", data |-> <<>>]

\* Result<(), watcher::Error> of the background task, "Running" until it ends.
Running == [tag |-> "Running", error |-> ""]
ErrBackend(e) == [tag |-> "Backend", error |-> e]
ErrSendClipEntry == [tag |-> "SendClipEntry", error |-> ""]
ErrSubscriberClosed == [tag |-> "SubscriberClosed", error |-> ""]

\* The receiver new() itself holds (_event_receiver) is receiver 0.
EventReceiver == 0
ReceiverIds == 0..MaxReceivers

VARIABLES
    opts,           \* ClipboardWatcherOptions
    ctor,           \* position of the thread that calls new()
    enabled_kinds,  \* Vec<ClipboardKind>
    is_watching,    \* Arc<AtomicBool>
    receivers,      \* live broadcast::Receiver<ClipEntry> of clip_sender
    rx,             \* per followed receiver: its cursor and what it was handed
    stream,         \* notifications the backend emitted, not yet taken
    closed,         \* the backend closed the notification stream
    emitted,        \* number of notifications emitted so far
    pc,             \* position of the background task
    idx,            \* position of the initial-load for loop in enabled_kinds
    kind,           \* the kind the task is working on
    new_data,       \* content about to be sent
    current_data,   \* HashMap<ClipboardKind, content>
    result,         \* the task's Result once it ended
    published,      \* history: entries clip_sender.send accepted, in order
    loads,          \* history: number of backend.load calls
    lastLoad,       \* history: per kind, what the latest backend.load returned
    outcome,        \* history: what the task's latest step did
    discarded,      \* history: kinds of the notifications dropped with the flag false
    skipped         \* history: cached kinds with a load dropped since their last insert

vars ==
    <<opts, ctor, enabled_kinds, is_watching, receivers, rx, stream, closed,
      emitted, pc, idx, kind, new_data, current_data, result, published, loads,
      lastLoad, outcome, discarded, skipped>>

ctlVars == <<opts, ctor, enabled_kinds>>
chanVars == <<receivers, rx>>
envVars == <<stream, closed, emitted>>
taskVars == <<pc, idx, kind, new_data, current_data, result>>
histVars == <<published, loads, lastLoad, outcome, discarded, skipped>>

\* ------------------------------------------------------------- helpers
Range(s) == {s[i] : i \in 1..Len(s)}

\* ClipboardWatcherOptions
Options ==
    [load_current : BOOLEAN, enable_clipboard : BOOLEAN,
     enable_primary : BOOLEAN, filter_min_size : 0..MaxFilterMinSize]

\* lines 57-73
EnabledKinds(o) ==
    (IF o.enable_clipboard THEN <<Clipboard>> ELSE <<>>)
        \o (IF o.enable_primary THEN <<Primary>> ELSE <<>>)

\* ClipEntry::from_clipboard_content(data, kind)
ClipEntry(data, k) == [content |-> data, kind |-> k]

\* mutant of Insert: the map is left as it was
InsertNothing(m, k, v) == m

\* HashMap::insert
Insert(m, k, v) == [x \in DOMAIN m \cup {k} |-> IF x = k THEN v ELSE m[x]]
EmptyMap == [x \in {} |-> <<>>]

\* mutants of PassesFilter: >= for >, and a threshold one too high
PassesFilterGe(data) == Len(data) >= opts.filter_min_size
PassesFilterOffByOne(data) == Len(data) > opts.filter_min_size + 1

\* data.len() > filter_min_size (lines 89, 116)
PassesFilter(data) == Len(data) > opts.filter_min_size

\* mutant of IsChanged: the cache is not consulted
IsChangedAlways(k, data) == TRUE

\* match current_data.get(&kind) (lines 117-121): TRUE when the content is new
IsChanged(k, data) ==
    IF k \in DOMAIN current_data THEN data # current_data[k] ELSE TRUE

\* the error arm of the initial load that continues (lines 99-104)
IgnorableInitial ==
    {EmptyClipboard, MatchMime, UnknownContentType, UnsupportedClipboardKind}

\* mutants of IgnorableSteady: an arm is missing; every error is swallowed
IgnorableSteadyNoMime == {EmptyClipboard, UnknownContentType}
IgnorableSteadyAll == BackendErrors

\* the error arm of the steady-state load that continues (lines 126-130)
IgnorableSteady == {EmptyClipboard, MatchMime, UnknownContentType}

\* mutants of ShouldProcess: one of the two conjuncts is missing
ShouldProcessNoFlag(k) == k \in Range(enabled_kinds)
ShouldProcessNoKinds(k) == is_watching

\* is_watching.load(Relaxed) && enabled_kinds.contains(&kind) (line 113)
ShouldProcess(k) == is_watching /\ k \in Range(enabled_kinds)

\* mutant of Capacity: the channel retains half as many entries
CapacityHalf == 16 \div 2

\* broadcast::channel(16) (line 75): the entries the channel retains
Capacity == 16

\* mutant of SendOk: the result of send is not looked at
SendOkAlways == TRUE

\* broadcast::Sender::send is Ok exactly when a receiver exists
SendOk == receivers # {}

\* where the task goes once the for loop over enabled_kinds is at position i
AfterInit(i) == IF i > Len(enabled_kinds) THEN "wait" ELSE "init_load"

\* mutant of FirstPc: load_current is not looked at
FirstPcAlwaysLoad == AfterInit(1)

\* if load_current { for ... } loop { ... } (lines 85, 86, 110)
FirstPc == IF opts.load_current THEN AfterInit(1) ELSE "wait"

\* a receiver created now: its cursor is the channel's tail, it was handed
\* nothing and lost nothing
NewRx == [next |-> Len(published), seen |-> <<>>, lost |-> 0]

\* ------------------------------------------------------------------ Init
Init ==
    /\ opts \in Options
    /\ ctor = "new"
    /\ enabled_kinds = <<>>
    /\ is_watching = TRUE
    /\ receivers = {}
    /\ rx = [r \in {} |-> NewRx]
    /\ stream = <<>>
    /\ closed = FALSE
    /\ emitted = 0
    /\ pc = "none"
    /\ idx = 1
    /\ kind = Clipboard
    /\ new_data = <<>>
    /\ current_data = EmptyMap
    /\ result = Running
    /\ published = <<>>
    /\ loads = 0
    /\ lastLoad = [k \in ClipboardKind |-> NoLoad]
    /\ outcome = "none"
    /\ discarded = {}
    /\ skipped = {}

\* ------------------------------------------- ClipboardWatcher::new (47-155)
\* lines 57-83: the watch set, the channel with the receiver new() keeps, the
\* flag, backend.subscribe() succeeding, and task::spawn
NewSpawn ==
    /\ ctor = "new"
    /\ ctor' = "spawned"
    /\ enabled_kinds' = EnabledKinds(opts)
    /\ receivers' = {EventReceiver}
    /\ rx' = [r \in {EventReceiver} |-> NewRx]
    /\ is_watching' = TRUE
    /\ pc' = "start"
    /\ UNCHANGED <<opts, idx, kind, new_data, current_data, result>>
    /\ UNCHANGED <<envVars, histVars>>

\* mutant of NewSubscribeFailed: the task is spawned before subscribe() is
\* tried
NewSubscribeFailedSpawns ==
    /\ ctor = "new"
    /\ ctor' = "failed"
    /\ pc' = "start"
    /\ UNCHANGED <<opts, enabled_kinds, is_watching, chanVars>>
    /\ UNCHANGED <<idx, kind, new_data, current_data, result>>
    /\ UNCHANGED <<envVars, histVars>>

\* line 82: backend.subscribe()? returns the error from new()
NewSubscribeFailed ==
    /\ ctor = "new"
    /\ ctor' = "failed"
    /\ UNCHANGED <<opts, enabled_kinds, is_watching, chanVars>>
    /\ UNCHANGED <<envVars, taskVars, histVars>>

\* line 154-155: Ok(Self {..}); _event_receiver goes out of scope
NewReturn ==
    /\ ctor = "spawned"
    /\ ctor' = "returned"
    /\ receivers' = receivers \ {EventReceiver}
    /\ rx' = [r \in DOMAIN rx \cap receivers' |-> rx[r]]
    /\ UNCHANGED <<opts, enabled_kinds, is_watching>>
    /\ UNCHANGED <<envVars, taskVars, histVars>>

\* --------------------------------------------- control surface (157-191)
\* the smallest receiver id not in use
FreeReceiver == CHOOSE r \in (1..MaxReceivers) \ receivers :
                    \A q \in (1..MaxReceivers) \ receivers : r <= q

\* line 158: a new receiver; what it will read is not followed
Subscribe ==
    /\ ctor = "returned"
    /\ (1..MaxReceivers) \ receivers # {}
    /\ receivers' = receivers \cup {FreeReceiver}
    /\ UNCHANGED <<rx, ctlVars, is_watching, envVars, taskVars, histVars>>

\* line 158 with the receiver's reads followed: clip_sender.subscribe() gives
\* a receiver whose cursor is the channel's tail
SubscribeTracked ==
    /\ ctor = "returned"
    /\ (1..MaxReceivers) \ receivers # {}
    /\ receivers' = receivers \cup {FreeReceiver}
    /\ rx' = [r \in DOMAIN rx \cup {FreeReceiver} |->
                IF r \in DOMAIN rx THEN rx[r] ELSE NewRx]
    /\ UNCHANGED <<ctlVars, is_watching, envVars, taskVars, histVars>>

\* a Receiver handed out by subscribe() is dropped by its owner
DropReceiver ==
    /\ \E r \in receivers \ {EventReceiver} : receivers' = receivers \ {r}
    /\ rx' = [r \in DOMAIN rx \cap receivers' |-> rx[r]]
    /\ UNCHANGED <<ctlVars, is_watching, envVars, taskVars, histVars>>

\* lines 161-164
Enable ==
    /\ ctor = "returned"
    /\ is_watching' = TRUE
    /\ UNCHANGED <<ctlVars, chanVars, envVars, taskVars, histVars>>

\* lines 167-170
Disable ==
    /\ ctor = "returned"
    /\ is_watching' = FALSE
    /\ UNCHANGED <<ctlVars, chanVars, envVars, taskVars, histVars>>

\* mutant of Toggle: the flag is cleared whatever it was
ToggleAlwaysDisable ==
    /\ ctor = "returned"
    /\ is_watching' = FALSE
    /\ UNCHANGED <<ctlVars, chanVars, envVars, taskVars, histVars>>

\* lines 173-179
Toggle ==
    /\ ctor = "returned"
    /\ is_watching' = IF is_watching THEN FALSE ELSE TRUE
    /\ UNCHANGED <<ctlVars, chanVars, envVars, taskVars, histVars>>

\* line 182
IsWatching == is_watching

\* lines 185-191
State == IF IsWatching THEN "Enabled" ELSE "Disabled"

\* ------------------------------------------------------------- backend
\* the stream of backend.subscribe() (line 82) is owned by the task and
\* dropped with it
SubscriberAlive == ctor \in {"spawned", "returned"} /\ pc # "done"

\* the backend announces a change of a kind of K on the stream subscribe()
\* gave, at most max times in a run
Notify(K, max) ==
    /\ SubscriberAlive
    /\ ~closed
    /\ emitted < max
    /\ \E k \in K : stream' = Append(stream, k)
    /\ emitted' = emitted + 1
    /\ UNCHANGED <<closed, ctlVars, is_watching, chanVars, taskVars, histVars>>

BackendNotify == Notify(ClipboardKind, MaxNotifs)

\* the backend ends the stream
BackendClose ==
    /\ SubscriberAlive
    /\ ~closed
    /\ closed' = TRUE
    /\ UNCHANGED <<stream, emitted, ctlVars, is_watching, chanVars, taskVars,
                   histVars>>

\* --------------------------------------------- the background task (83-151)
\* lines 84-85
TaskStart ==
    /\ pc = "start"
    /\ current_data' = EmptyMap
    /\ idx' = 1
    /\ pc' = FirstPc
    /\ UNCHANGED <<kind, new_data, result>>
    /\ UNCHANGED <<ctlVars, is_watching, chanVars, envVars, histVars>>

\* mutant of InitLoad: the initial pass looks at the flag and skips the kind
\* when it reads false
InitLoadChecksFlag ==
    \/ /\ pc = "init_load"
       /\ ~is_watching
       /\ idx' = idx + 1
       /\ pc' = AfterInit(idx + 1)
       /\ UNCHANGED <<kind, new_data, current_data, result, histVars>>
       /\ UNCHANGED <<ctlVars, is_watching, chanVars, envVars>>
    \/ /\ pc = "init_load"
       /\ is_watching
       /\ kind' = enabled_kinds[idx]
       /\ loads' = loads + 1
       /\ \E r \in LoadResults :
           /\ lastLoad' = [lastLoad EXCEPT ![kind'] = r]
           /\ IF r.tag = "Ok" /\ PassesFilter(r.data)
              THEN /\ current_data' = Insert(current_data, kind', r.data)
                   /\ new_data' = r.data
                   /\ pc' = "init_send"
                   /\ outcome' = IF is_watching THEN "init_cached"
                                                ELSE "init_cached_disabled"
                   /\ UNCHANGED <<idx, result>>
              ELSE IF r.tag = "Ok" \/ r.tag \in IgnorableInitial
              THEN /\ idx' = idx + 1
                   /\ pc' = AfterInit(idx + 1)
                   /\ outcome' = IF r.tag = "Ok" THEN "init_filtered"
                                                 ELSE "init_ignored"
                   /\ UNCHANGED <<new_data, current_data, result>>
              ELSE /\ pc' = "done"
                   /\ result' = ErrBackend(r.tag)
                   /\ outcome' = "init_fatal"
                   /\ UNCHANGED <<idx, new_data, current_data>>
       /\ UNCHANGED <<published, discarded, skipped>>
       /\ UNCHANGED <<ctlVars, is_watching, chanVars, envVars>>

\* lines 86-90 and 99-105: backend.load(kind).await of the initial pass and
\* the match on what it returned, up to the insert into current_data
InitLoad ==
    /\ pc = "init_load"
    /\ kind' = enabled_kinds[idx]
    /\ loads' = loads + 1
    /\ \E r \in LoadResults :
        /\ lastLoad' = [lastLoad EXCEPT ![kind'] = r]
        /\ IF r.tag = "Ok" /\ PassesFilter(r.data)
           THEN /\ current_data' = Insert(current_data, kind', r.data)
                /\ new_data' = r.data
                /\ pc' = "init_send"
                /\ outcome' = IF is_watching THEN "init_cached"
                                             ELSE "init_cached_disabled"
                /\ UNCHANGED <<idx, result>>
           ELSE IF r.tag = "Ok" \/ r.tag \in IgnorableInitial
           THEN /\ idx' = idx + 1
                /\ pc' = AfterInit(idx + 1)
                /\ outcome' = IF r.tag = "Ok" THEN "init_filtered"
                                              ELSE "init_ignored"
                /\ UNCHANGED <<new_data, current_data, result>>
           ELSE /\ pc' = "done"
                /\ result' = ErrBackend(r.tag)
                /\ outcome' = "init_fatal"
                /\ UNCHANGED <<idx, new_data, current_data>>
    /\ UNCHANGED <<published, discarded, skipped>>
    /\ UNCHANGED <<ctlVars, is_watching, chanVars, envVars>>

\* lines 91-96: clip_sender.send of the initial pass
InitSend ==
    /\ pc = "init_send"
    /\ IF SendOk
       THEN /\ published' = Append(published, ClipEntry(new_data, kind))
            /\ idx' = idx + 1
            /\ pc' = AfterInit(idx + 1)
            /\ outcome' = IF outcome = "init_cached_disabled" /\ ~is_watching
                          THEN "init_published_disabled"
                          ELSE "init_published"
            /\ UNCHANGED <<result>>
       ELSE /\ pc' = "done"
            /\ result' = ErrSendClipEntry
            /\ outcome' = "init_send_failed"
            /\ UNCHANGED <<idx, published>>
    /\ UNCHANGED <<kind, new_data, current_data, loads, lastLoad, discarded, skipped>>
    /\ UNCHANGED <<ctlVars, is_watching, chanVars, envVars>>

\* mutant of Recv: the stream is read only while the flag is true
RecvOnlyWhenWatching ==
    /\ pc = "wait"
    /\ is_watching
    /\ \/ /\ stream # <<>>
          /\ kind' = Head(stream)
          /\ stream' = Tail(stream)
          /\ pc' = "check"
          /\ outcome' = "received"
          /\ UNCHANGED <<result>>
       \/ /\ stream = <<>>
          /\ closed
          /\ pc' = "done"
          /\ result' = ErrSubscriberClosed
          /\ outcome' = "closed"
          /\ UNCHANGED <<kind, stream>>
    /\ UNCHANGED <<closed, emitted, idx, new_data, current_data>>
    /\ UNCHANGED <<published, loads, lastLoad, discarded, skipped>>
    /\ UNCHANGED <<ctlVars, is_watching, chanVars>>

\* mutants of Recv: the end of the stream is waited out; the end of the
\* stream ends the task with Ok(())
RecvRetriesOnClose ==
    /\ pc = "wait"
    /\ \/ /\ stream # <<>>
          /\ kind' = Head(stream)
          /\ stream' = Tail(stream)
          /\ pc' = "check"
          /\ outcome' = "received"
       \/ /\ stream = <<>>
          /\ closed
          /\ pc' = "wait"
          /\ outcome' = "closed"
          /\ UNCHANGED <<kind, stream>>
    /\ UNCHANGED <<closed, emitted, idx, new_data, current_data, result>>
    /\ UNCHANGED <<published, loads, lastLoad, discarded, skipped>>
    /\ UNCHANGED <<ctlVars, is_watching, chanVars>>

RecvEndsOnClose ==
    /\ pc = "wait"
    /\ \/ /\ stream # <<>>
          /\ kind' = Head(stream)
          /\ stream' = Tail(stream)
          /\ pc' = "check"
          /\ outcome' = "received"
          /\ UNCHANGED <<result>>
       \/ /\ stream = <<>>
          /\ closed
          /\ pc' = "done"
          /\ result' = [tag |-> "Ok", error |-> ""]
          /\ outcome' = "closed"
          /\ UNCHANGED <<kind, stream>>
    /\ UNCHANGED <<closed, emitted, idx, new_data, current_data>>
    /\ UNCHANGED <<published, loads, lastLoad, discarded, skipped>>
    /\ UNCHANGED <<ctlVars, is_watching, chanVars>>

\* line 111: subscriber.next().await.context(SubscriberClosedSnafu)?
Recv ==
    /\ pc = "wait"
    /\ \/ /\ stream # <<>>
          /\ kind' = Head(stream)
          /\ stream' = Tail(stream)
          /\ pc' = "check"
          /\ outcome' = "received"
          /\ UNCHANGED <<result>>
       \/ /\ stream = <<>>
          /\ closed
          /\ pc' = "done"
          /\ result' = ErrSubscriberClosed
          /\ outcome' = "closed"
          /\ UNCHANGED <<kind, stream>>
    /\ UNCHANGED <<closed, emitted, idx, new_data, current_data>>
    /\ UNCHANGED <<published, loads, lastLoad, discarded, skipped>>
    /\ UNCHANGED <<ctlVars, is_watching, chanVars>>

\* mutant of Check: a notification discarded because the flag reads false
\* still refreshes the cache
CheckCachingDiscard ==
    /\ pc = "check"
    /\ IF ShouldProcess(kind)
       THEN /\ pc' = "load"
            /\ outcome' = "accepted"
            /\ UNCHANGED <<current_data, discarded>>
       ELSE /\ pc' = "wait"
            /\ outcome' = IF kind \in Range(enabled_kinds)
                          THEN "discarded_disabled" ELSE "discarded_unwatched"
            /\ discarded' = IF kind \in Range(enabled_kinds)
                            THEN discarded \cup {kind} ELSE discarded
            /\ IF kind \in Range(enabled_kinds)
               THEN \E c \in Contents :
                        current_data' = Insert(current_data, kind, c)
               ELSE UNCHANGED current_data
    /\ UNCHANGED <<idx, kind, new_data, result>>
    /\ UNCHANGED <<published, loads, lastLoad, skipped>>
    /\ UNCHANGED <<ctlVars, is_watching, chanVars, envVars>>

\* line 113: the flag and the watch set decide whether the notification is
\* loaded or discarded
Check ==
    /\ pc = "check"
    /\ IF ShouldProcess(kind)
       THEN /\ pc' = "load"
            /\ outcome' = "accepted"
            /\ UNCHANGED discarded
       ELSE /\ pc' = "wait"
            /\ outcome' = IF kind \in Range(enabled_kinds)
                          THEN "discarded_disabled" ELSE "discarded_unwatched"
            /\ discarded' = IF kind \in Range(enabled_kinds)
                            THEN discarded \cup {kind} ELSE discarded
    /\ UNCHANGED <<idx, kind, new_data, current_data, result>>
    /\ UNCHANGED <<published, loads, lastLoad, skipped>>
    /\ UNCHANGED <<ctlVars, is_watching, chanVars, envVars>>

\* mutant of Load: a load that is dropped as filtered or ignorable removes the
\* kind from the cache
LoadForgetsOnDiscard ==
    /\ pc = "load"
    /\ loads' = loads + 1
    /\ \E r \in LoadResults :
        /\ lastLoad' = [lastLoad EXCEPT ![kind] = r]
        /\ IF r.tag = "Ok" /\ PassesFilter(r.data) /\ IsChanged(kind, r.data)
           THEN /\ current_data' = Insert(current_data, kind, r.data)
                /\ new_data' = r.data
                /\ pc' = "send"
                /\ outcome' = "changed"
                /\ skipped' = skipped \ {kind}
                /\ UNCHANGED <<result>>
           ELSE IF r.tag = "Ok" \/ r.tag \in IgnorableSteady
           THEN /\ pc' = "wait"
                /\ outcome' = IF r.tag # "Ok" THEN "ignored"
                              ELSE IF PassesFilter(r.data) THEN "duplicate"
                              ELSE "filtered"
                /\ skipped' = IF (r.tag # "Ok" \/ ~PassesFilter(r.data))
                                    /\ kind \in DOMAIN current_data
                               THEN skipped \cup {kind} ELSE skipped
                /\ current_data' =
                        IF r.tag # "Ok" \/ ~PassesFilter(r.data)
                        THEN [x \in DOMAIN current_data \ {kind}
                                |-> current_data[x]]
                        ELSE current_data
                /\ UNCHANGED <<new_data, result>>
           ELSE /\ pc' = "done"
                /\ result' = ErrBackend(r.tag)
                /\ outcome' = "fatal"
                /\ UNCHANGED <<new_data, current_data, skipped>>
    /\ UNCHANGED <<idx, kind, published, discarded>>
    /\ UNCHANGED <<ctlVars, is_watching, chanVars, envVars>>

\* lines 114-141: backend.load(kind).await of the loop and the match on what
\* it returned, up to the insert into current_data
Load ==
    /\ pc = "load"
    /\ loads' = loads + 1
    /\ \E r \in LoadResults :
        /\ lastLoad' = [lastLoad EXCEPT ![kind] = r]
        /\ IF r.tag = "Ok" /\ PassesFilter(r.data) /\ IsChanged(kind, r.data)
           THEN /\ current_data' = Insert(current_data, kind, r.data)
                /\ new_data' = r.data
                /\ pc' = "send"
                /\ outcome' = "changed"
                /\ skipped' = skipped \ {kind}
                /\ UNCHANGED <<result>>
           ELSE IF r.tag = "Ok" \/ r.tag \in IgnorableSteady
           THEN /\ pc' = "wait"
                /\ outcome' = IF r.tag # "Ok" THEN "ignored"
                              ELSE IF PassesFilter(r.data) THEN "duplicate"
                              ELSE "filtered"
                /\ skipped' = IF (r.tag # "Ok" \/ ~PassesFilter(r.data))
                                    /\ kind \in DOMAIN current_data
                               THEN skipped \cup {kind} ELSE skipped
                /\ UNCHANGED <<new_data, current_data, result>>
           ELSE /\ pc' = "done"
                /\ result' = ErrBackend(r.tag)
                /\ outcome' = "fatal"
                /\ UNCHANGED <<new_data, current_data, skipped>>
    /\ UNCHANGED <<idx, kind, published, discarded>>
    /\ UNCHANGED <<ctlVars, is_watching, chanVars, envVars>>

\* mutant of Send: send waits while a followed receiver has Capacity entries
\* unread
SendWaitsForRoom ==
    /\ pc = "send"
    /\ \A r \in DOMAIN rx : Len(published) - rx[r].next < Capacity
    /\ IF SendOk
       THEN /\ published' = Append(published, ClipEntry(new_data, kind))
            /\ pc' = "wait"
            /\ outcome' = "published"
            /\ UNCHANGED <<result>>
       ELSE /\ pc' = "done"
            /\ result' = ErrSendClipEntry
            /\ outcome' = "send_failed"
            /\ UNCHANGED <<published>>
    /\ UNCHANGED <<idx, kind, new_data, current_data, loads, lastLoad, discarded,
                   skipped>>
    /\ UNCHANGED <<ctlVars, is_watching, chanVars, envVars>>

\* lines 142-148: clip_sender.send of the loop
Send ==
    /\ pc = "send"
    /\ IF SendOk
       THEN /\ published' = Append(published, ClipEntry(new_data, kind))
            /\ pc' = "wait"
            /\ outcome' = "published"
            /\ UNCHANGED <<result>>
       ELSE /\ pc' = "done"
            /\ result' = ErrSendClipEntry
            /\ outcome' = "send_failed"
            /\ UNCHANGED <<published>>
    /\ UNCHANGED <<idx, kind, new_data, current_data, loads, lastLoad, discarded,
                   skipped>>
    /\ UNCHANGED <<ctlVars, is_watching, chanVars, envVars>>

\* ----------------------------------------------- the owner of a receiver
\* broadcast::Receiver::recv on a followed receiver that has something to
\* read: a receiver more than Capacity entries behind is told it lagged and
\* its cursor moves to the oldest retained entry; otherwise it is handed the
\* entry at its cursor (seen keeps the entry's position in published)
ReceiverRecv ==
    /\ \E r \in DOMAIN rx \ {EventReceiver} :
        LET c == rx[r]
            tail == Len(published)
        IN  /\ c.next < tail
            /\ rx' = [rx EXCEPT ![r] =
                        IF tail - c.next > Capacity
                        THEN [next |-> tail - Capacity, seen |-> c.seen,
                              lost |-> c.lost + (tail - Capacity - c.next)]
                        ELSE [next |-> c.next + 1,
                              seen |-> Append(c.seen, c.next + 1),
                              lost |-> c.lost]]
    /\ UNCHANGED <<ctlVars, is_watching, receivers, envVars, taskVars, histVars>>

Next ==
    \/ NewSpawn
    \/ NewSubscribeFailed
    \/ NewReturn
    \/ Subscribe
    \/ DropReceiver
    \/ Enable
    \/ Disable
    \/ Toggle
    \/ BackendNotify
    \/ BackendClose
    \/ TaskStart
    \/ InitLoad
    \/ InitSend
    \/ Recv
    \/ Check
    \/ Load
    \/ Send

Spec == Init /\ [][Next]_vars

\* ------------------------------------------------- runs under fairness
\* the watcher without a size filter, every load returning one result of
\* each class: a content (new the first time, a duplicate after), an error
\* the loop ignores, an error it does not
FairLoadResults == {Ok(<<"a">>), Err(EmptyClipboard), Err(OtherBackendError)}

FairInit == Init /\ opts.filter_min_size = 0
FairInitLoad == InitLoad /\ lastLoad'[kind'] \in FairLoadResults
FairLoad == Load /\ lastLoad'[kind] \in FairLoadResults

\* a step of the background task
TaskStep ==
    TaskStart \/ FairInitLoad \/ InitSend \/ Recv \/ Check \/ FairLoad \/ Send

FairNext ==
    \/ NewSpawn
    \/ NewSubscribeFailed
    \/ NewReturn
    \/ Subscribe
    \/ DropReceiver
    \/ Enable
    \/ Disable
    \/ Toggle
    \/ BackendNotify
    \/ BackendClose
    \/ TaskStart
    \/ FairInitLoad
    \/ InitSend
    \/ Recv
    \/ Check
    \/ FairLoad
    \/ Send

\* the runtime keeps polling the spawned task and every backend.load(kind)
\* it awaits completes: a task step that stays possible is taken
FairSpec == FairInit /\ [][FairNext]_vars /\ WF_vars(TaskStep)

\* ------------------------------------------- runs that follow a receiver
\* the watcher with the initial pass off, the clipboard watched and no size
\* filter; the flag stays true, the backend announces one clipboard change
\* at a time and every load returns one of two contents
ChanOptions ==
    [load_current |-> FALSE, enable_clipboard |-> TRUE,
     enable_primary |-> FALSE, filter_min_size |-> 0]
ChanLoadResults == {Ok(<<"a">>), Ok(<<"a", "b">>)}

\* the receivers handed out by subscribe() whose reads are followed; one is
\* followed at a time, next to the receivers that are not
Followed == DOMAIN rx \ {EventReceiver}

ChanInit == Init /\ opts = ChanOptions
ChanSubscribe == Followed = {} /\ SubscribeTracked
ChanNotify == stream = <<>> /\ Notify({Clipboard}, MaxChanNotifs)
ChanLoad == Load /\ lastLoad'[kind] \in ChanLoadResults

ChanNext ==
    \/ NewSpawn
    \/ NewReturn
    \/ Subscribe
    \/ ChanSubscribe
    \/ DropReceiver
    \/ ChanNotify
    \/ TaskStart
    \/ Recv
    \/ Check
    \/ ChanLoad
    \/ Send
    \/ ReceiverRecv

ChanSpec == ChanInit /\ [][ChanNext]_vars

\* notifications subscriber.next() has returned so far (line 111)
Consumed == emitted - Len(stream)

\* ----------------------------------------------------------- type check
TypeOK ==
    /\ opts \in Options
    /\ ctor \in {"new", "spawned", "returned", "failed"}
    /\ is_watching \in BOOLEAN
    /\ receivers \subseteq ReceiverIds
    /\ DOMAIN rx \subseteq receivers
    /\ \A r \in DOMAIN rx : rx[r].next <= Len(published)
    /\ Range(stream) \subseteq ClipboardKind
    /\ emitted \in 0..MaxNotifs
    /\ pc \in {"none", "start", "init_load", "init_send", "wait", "check",
               "load", "send", "done"}
    /\ kind \in ClipboardKind
    /\ new_data \in Contents \cup {<<>>}
    /\ DOMAIN current_data \subseteq ClipboardKind
    /\ (pc = "done") = (result # Running)

\* ------------------------------------------------------------- claims
\* the step is a backend.load call of the task; Loaded is what it returned
LoadStep == loads' = loads + 1
Loaded == lastLoad'[kind']

\* entries published so far for kind k with content c
PublishedCount(k, c) ==
    Cardinality({i \in 1..Len(published) :
                    published[i].kind = k /\ published[i].content = c})

\* positions in published of the entries of kind k
PublishedOf(k) == {i \in 1..Len(published) : published[i].kind = k}

\* C1: every published entry is longer than filter_min_size, and a load
\* (initial pass or loop) that returns content of length <= filter_min_size
\* goes on without a send, a cache update or a publication.
C1_FilterMinSize ==
    /\ [](\A i \in 1..Len(published) :
            Len(published[i].content) > opts.filter_min_size)
    /\ [][(LoadStep /\ Loaded.tag = "Ok"
                /\ Len(Loaded.data) <= opts.filter_min_size)
            => /\ pc' \in {"init_load", "wait"}
               /\ published' = published
               /\ current_data' = current_data]_vars

\* C1 witness: content exactly filter_min_size long was loaded in the loop and
\* dropped, after an entry had been published.
C1_Witness ==
    /\ outcome = "filtered"
    /\ lastLoad[kind].tag = "Ok"
    /\ Len(lastLoad[kind].data) = opts.filter_min_size
    /\ published # <<>>

\* C2: a load of the loop that returns the same content (longer than
\* filter_min_size) as the previous load of that kind, be it of the initial
\* pass or of the loop, is suppressed: no send, no publication; and no two
\* successive entries published for one kind carry the same content.
C2_DuplicateSuppressed ==
    /\ [](\A k \in ClipboardKind : \A i, j \in PublishedOf(k) :
            (i < j /\ ~\E m \in PublishedOf(k) : i < m /\ m < j)
                => published[i].content # published[j].content)
    /\ [][(LoadStep /\ pc = "load" /\ lastLoad[kind].tag = "Ok"
                /\ Len(lastLoad[kind].data) > opts.filter_min_size
                /\ Loaded = lastLoad[kind])
            => /\ pc' = "wait"
               /\ published' = published]_vars

\* C2 witness: the initial pass published the content, the first notification
\* loaded the same content again and nothing more was published.
C2_Witness ==
    /\ opts.load_current
    /\ outcome = "duplicate"
    /\ Consumed = 1
    /\ loads = 2
    /\ Len(published) = 1
    /\ published[1] = ClipEntry(lastLoad[kind].data, kind)

\* C3 as stated: no load of the loop starts and no entry is published by the
\* loop in a state where the flag is false.
C3_NoLoadOrPublishWhileDisabled ==
    [][((pc = "load" /\ LoadStep) \/ (pc = "send" /\ published' # published))
        => is_watching]_vars

\* C3 amended: a notification the loop checks while the flag reads false is
\* discarded: no load, no cache update, no publication, back to waiting.
C3_DiscardedWhenFlagReadsFalse ==
    [][(pc = "check" /\ pc' # "check" /\ ~is_watching)
        => /\ pc' = "wait"
           /\ loads' = loads
           /\ published' = published
           /\ current_data' = current_data]_vars

\* C3 witness: a notification for a watched kind was discarded with the flag
\* false.
C3_Witness ==
    /\ outcome = "discarded_disabled"
    /\ pc = "wait"
    /\ ~is_watching
    /\ kind \in Range(enabled_kinds)

\* content of the latest entry published for kind k, <<>> if there is none
LastPublished(k) ==
    IF PublishedOf(k) = {} THEN <<>>
    ELSE published[CHOOSE i \in PublishedOf(k) :
                        \A j \in PublishedOf(k) : j <= i].content

\* C4: a notification that is discarded changes nothing the task keeps (cache,
\* publications, loads, result); so a later notification whose load returns
\* content X longer than filter_min_size and different from the latest entry
\* published for that kind is sent, and the send publishes exactly one entry
\* with X while a receiver exists.
C4_DiscardLeavesCache ==
    /\ [][(pc = "check" /\ pc' = "wait")
            => /\ current_data' = current_data
               /\ published' = published
               /\ loads' = loads
               /\ lastLoad' = lastLoad
               /\ result' = result]_vars
    /\ [][(pc = "load" /\ LoadStep /\ Loaded.tag = "Ok"
                /\ Len(Loaded.data) > opts.filter_min_size
                /\ Loaded.data # LastPublished(kind))
            => /\ pc' = "send"
               /\ new_data' = Loaded.data]_vars
    /\ [][(pc = "send" /\ pc' # "send" /\ receivers # {})
            => published' = Append(published, ClipEntry(new_data, kind))]_vars

\* C4 witness: disable, a notification discarded, enable, a second notification
\* for the same kind whose content was published as the only entry.
C4_Witness ==
    /\ kind \in discarded
    /\ ~opts.load_current
    /\ Consumed = 2
    /\ loads = 1
    /\ outcome = "published"
    /\ is_watching
    /\ Len(published) = 1
    /\ published[1] = ClipEntry(lastLoad[kind].data, kind)

\* the watch set the options ask for
WatchSet ==
    {k \in ClipboardKind :
        \/ k = Clipboard /\ opts.enable_clipboard
        \/ k = Primary /\ opts.enable_primary}

\* C5: a kind outside the watch set is never loaded, cached or published,
\* whatever the two enable options; with both false nothing is ever loaded or
\* published.
C5_UnwatchedKindUntouched ==
    /\ pc \in {"load", "send", "init_send"} => kind \in WatchSet
    /\ DOMAIN current_data \subseteq WatchSet
    /\ \A i \in 1..Len(published) : published[i].kind \in WatchSet
    /\ \A k \in ClipboardKind \ WatchSet : lastLoad[k] = NoLoad
    /\ WatchSet = {} => loads = 0 /\ published = <<>>

\* C5 witness: with one kind watched and the flag true, an entry was published
\* and a notification for the other kind was discarded.
C5_Witness ==
    /\ outcome = "discarded_unwatched"
    /\ is_watching
    /\ kind \notin WatchSet
    /\ published # <<>>

\* C6: with load_current false nothing is loaded, cached or published before
\* the first notification is consumed, and the cache is empty while the first
\* notification is checked and loaded.
C6_NoInitialLoad ==
    (pc # "none" /\ ~opts.load_current)
        => /\ Consumed = 0
                => loads = 0 /\ published = <<>> /\ current_data = EmptyMap
           /\ (Consumed = 1 /\ pc \in {"check", "load"})
                => loads = 0 /\ current_data = EmptyMap

\* C6 witness: load_current is false and the first notification is about to be
\* loaded, with nothing loaded or cached before.
C6_Witness ==
    /\ ~opts.load_current
    /\ Consumed = 1
    /\ pc = "load"
    /\ loads = 0
    /\ current_data = EmptyMap

\* the initial pass is over and no notification has been consumed
InitialPassOver == opts.load_current /\ Consumed = 0 /\ pc \in {"wait", "done"}

\* kind k was loaded with content that passes the filter
LoadedPublishable(k) ==
    lastLoad[k].tag = "Ok" /\ Len(lastLoad[k].data) > opts.filter_min_size

\* C7 as stated: with load_current, once the initial pass is over, every kind
\* whose initial load returned content longer than filter_min_size has exactly
\* one entry with that content and kind published.
C7_InitialContentPublished ==
    InitialPassOver =>
        \A k \in ClipboardKind :
            LoadedPublishable(k) => PublishedCount(k, lastLoad[k].data) = 1

\* C7 amended: the same, provided a receiver exists when the entry is sent;
\* with no receiver the send publishes nothing for the kind and the task ends
\* with SendClipEntry.
C7_InitialContentPublishedIfReceiver ==
    /\ [](InitialPassOver =>
            \A k \in ClipboardKind :
                LoadedPublishable(k) =>
                    \/ /\ PublishedCount(k, lastLoad[k].data) = 1
                       /\ Cardinality(PublishedOf(k)) = 1
                    \/ /\ PublishedOf(k) = {}
                       /\ result = ErrSendClipEntry
                       /\ kind = k)
    /\ [][(pc = "init_send" /\ pc' # "init_send" /\ receivers # {})
            => /\ published' =
                    Append(published, ClipEntry(lastLoad[kind].data, kind))
               /\ result' = Running]_vars

\* C7 witness: options {load_current: true, enable_clipboard: true,
\* enable_primary: false, filter_min_size: 1}, clipboard content "ab" at
\* start: exactly that entry is published before any notification is emitted.
C7_Witness ==
    /\ opts = [load_current |-> TRUE, enable_clipboard |-> TRUE,
               enable_primary |-> FALSE, filter_min_size |-> 1]
    /\ emitted = 0
    /\ pc = "wait"
    /\ published = <<ClipEntry(<<"a", "b">>, Clipboard)>>

\* C8 as stated: the task never ends with a Backend error that carries one
\* of the four ignorable conditions.
C8_IgnorableNeverFatal ==
    result.tag = "Backend"
        => result.error \notin {EmptyClipboard, MatchMime, UnknownContentType,
                                UnsupportedClipboardKind}

\* C8 amended: an empty clipboard, an unmatched MIME and an unknown content
\* type are swallowed in the initial pass and in the loop, an unsupported
\* clipboard kind in the initial pass only: nothing is published or cached and
\* the task goes on with the next kind or notification. In the loop an
\* unsupported clipboard kind ends the task with a Backend error.
C8_IgnorableSwallowed ==
    /\ [][(LoadStep
            /\ \/ Loaded.tag \in {EmptyClipboard, MatchMime, UnknownContentType}
               \/ pc = "init_load" /\ Loaded.tag = UnsupportedClipboardKind)
            => /\ result' = Running
               /\ published' = published
               /\ current_data' = current_data
               /\ IF pc = "init_load"
                  THEN idx' = idx + 1 /\ pc' \in {"init_load", "wait"}
                  ELSE pc' = "wait"]_vars
    /\ [][(LoadStep /\ pc = "load" /\ Loaded.tag = UnsupportedClipboardKind)
            => /\ pc' = "done"
               /\ result' = ErrBackend(UnsupportedClipboardKind)]_vars

\* C8 witness: the initial pass swallowed an unsupported clipboard kind and the
\* loop then swallowed an unmatched MIME.
C8_Witness ==
    /\ outcome = "ignored"
    /\ pc = "wait"
    /\ lastLoad[kind].tag = MatchMime
    /\ \E k \in ClipboardKind : lastLoad[k].tag = UnsupportedClipboardKind

\* C9: a load that fails with another error ends the task with a Backend
\* error carrying it, in the initial pass and in the loop; once the task has
\* ended it consumes no notification, loads nothing and publishes nothing.
C9_HardErrorFatal ==
    /\ [][(LoadStep /\ Loaded.tag = OtherBackendError)
            => /\ pc' = "done"
               /\ result' = ErrBackend(OtherBackendError)
               /\ published' = published
               /\ current_data' = current_data]_vars
    /\ [][pc = "done"
            => /\ pc' = "done"
               /\ result' = result
               /\ loads' = loads
               /\ published' = published
               /\ Consumed' = Consumed
               /\ stream' = stream]_vars

\* C9 witness: the loop ended with the Backend error while a notification was
\* still waiting in the stream.
C9_Witness ==
    /\ result = ErrBackend(OtherBackendError)
    /\ outcome = "fatal"
    /\ pc = "done"
    /\ stream # <<>>

\* C10: a send (initial pass or loop) made while no receiver exists publishes
\* nothing and ends the task with SendClipEntry.
C10_SendWithoutReceiverFatal ==
    [][(pc \in {"init_send", "send"} /\ pc' # pc /\ receivers = {})
        => /\ pc' = "done"
           /\ result' = ErrSendClipEntry
           /\ published' = published]_vars

\* C10 witness: the loop's send found no receiver after the initial pass had
\* published to one.
C10_Witness ==
    /\ result = ErrSendClipEntry
    /\ outcome = "send_failed"
    /\ receivers = {}
    /\ published # <<>>

\* C11: when subscriber.next() finds the stream ended, the task ends with
\* SubscriberClosed without a load or a publication, and a task that ended so
\* never waits, loads or publishes again.
C11_StreamClosedFatal ==
    /\ [][(pc = "wait" /\ stream = <<>> /\ closed /\ outcome' = "closed")
            => /\ pc' = "done"
               /\ result' = ErrSubscriberClosed
               /\ loads' = loads
               /\ published' = published]_vars
    /\ [][result = ErrSubscriberClosed
            => /\ pc' = "done"
               /\ result' = result
               /\ loads' = loads
               /\ published' = published
               /\ stream' = stream
               /\ closed' = closed]_vars

\* C11 witness: the stream ended after a notification had been processed and
\* the task ended with SubscriberClosed.
C11_Witness ==
    /\ result = ErrSubscriberClosed
    /\ pc = "done"
    /\ closed
    /\ Consumed > 0
    /\ published # <<>>

\* C12: when backend.subscribe() fails, new() has failed with no task, no
\* receiver, no load and no publication, and nothing happens afterwards; a
\* task exists exactly when subscribe() succeeded, and it is started once.
C12_SubscribeFailureNoTask ==
    /\ [](ctor = "failed"
            => /\ pc = "none"
               /\ result = Running
               /\ receivers = {}
               /\ loads = 0
               /\ published = <<>>)
    /\ []((ctor \in {"spawned", "returned"}) <=> (pc # "none"))
    /\ [][ctor = "failed" => UNCHANGED vars]_vars
    /\ [][pc' = "start" => (pc = "start" \/ (pc = "none" /\ ctor = "new"))]_vars

\* C12 witness: new() failed on backend.subscribe().
C12_Witness ==
    /\ ctor = "failed"
    /\ pc = "none"

\* C15: the flag is true until the handle exists; with the handle, enable()
\* can only leave it true and disable() only false, whatever it was, toggle()
\* can only negate it, and state() is Enabled exactly when is_watching() is
\* true.
C15_FlagAlgebra ==
    /\ ctor = "spawned" => is_watching
    /\ State \in {"Enabled", "Disabled"}
    /\ (State = "Enabled") <=> IsWatching
    /\ IsWatching <=> is_watching
    /\ ctor = "returned" =>
        /\ ENABLED (Enable /\ is_watching')
        /\ ~ENABLED (Enable /\ ~is_watching')
        /\ ENABLED (Disable /\ ~is_watching')
        /\ ~ENABLED (Disable /\ is_watching')
        /\ ENABLED (Toggle /\ is_watching' = ~is_watching)
        /\ ~ENABLED (Toggle /\ is_watching' = is_watching)

\* C15 witness: the handle exists and the flag has been cleared.
C15_Witness ==
    /\ ctor = "returned"
    /\ ~is_watching
    /\ State = "Disabled"

\* C16: the task has ended exactly when its result is one of Backend,
\* SubscriberClosed and SendClipEntry, and after a discarded notification,
\* filtered content, a suppressed duplicate, an ignorable load error or a
\* publication the task is awaiting the next notification (in the initial
\* pass: is at the next kind or awaiting the first notification).
C16_OnlyFatalTermination ==
    /\ (pc = "done") <=> (result # Running)
    /\ result.tag \in {"Running", "Backend", "SubscriberClosed", "SendClipEntry"}
    /\ outcome \in {"discarded_disabled", "discarded_unwatched", "filtered",
                    "duplicate", "ignored", "published"}
        => pc = "wait" /\ result = Running
    /\ outcome \in {"init_filtered", "init_ignored", "init_published",
                    "init_published_disabled"}
        => pc \in {"init_load", "wait"} /\ result = Running

\* C16 witness: both notifications were published and the task is waiting
\* again.
C16_Witness ==
    /\ outcome = "published"
    /\ pc = "wait"
    /\ Consumed = 2
    /\ Len(published) = 2

\* C17: whenever the task is not between a cache insert and its send, the
\* cache holds for each kind the content of the latest entry published for it
\* and nothing for a kind without entry; the cache changes only on the way to
\* a send of the inserted content, and a content goes from the loop's load to
\* a send only if it differs from the cache entry read for the kind.
C17_CacheIsLastPublished ==
    /\ [](pc \notin {"send", "init_send", "done"}
            => \A k \in ClipboardKind :
                IF PublishedOf(k) = {}
                THEN k \notin DOMAIN current_data
                ELSE /\ k \in DOMAIN current_data
                     /\ current_data[k] = LastPublished(k))
    /\ [][current_data' # current_data
            => /\ pc' \in {"send", "init_send"}
               /\ DOMAIN current_data' = DOMAIN current_data \cup {kind'}
               /\ current_data'[kind'] = new_data'
               /\ \A k \in DOMAIN current_data \ {kind'} :
                    current_data'[k] = current_data[k]]_vars
    /\ [][published' # published
            => published' =
                Append(published, ClipEntry(current_data[kind], kind))]_vars
    /\ [][(pc = "load" /\ pc' = "send")
            => \/ kind \notin DOMAIN current_data
               \/ current_data[kind] # new_data']_vars

\* C17 witness: two entries were published for one kind and the cache holds
\* the content of the second.
C17_Witness ==
    /\ pc = "wait"
    /\ Len(published) = 2
    /\ published[1].kind = published[2].kind
    /\ kind = published[2].kind
    /\ current_data[kind] = published[2].content
    /\ current_data[kind] # published[1].content

\* C19: the initial pass does not look at the flag: with the flag false every
\* step of the pass at a kind is still a load, content longer than
\* filter_min_size is still cached and goes to the send, and the send still
\* publishes it while a receiver exists.
C19_InitialPassIgnoresFlag ==
    /\ [][(pc = "init_load" /\ ~is_watching /\ (pc' # pc \/ idx' # idx))
            => /\ LoadStep
               /\ kind' = enabled_kinds[idx]]_vars
    /\ [][(pc = "init_load" /\ ~is_watching /\ LoadStep /\ Loaded.tag = "Ok"
                /\ Len(Loaded.data) > opts.filter_min_size)
            => /\ pc' = "init_send"
               /\ kind' \in DOMAIN current_data'
               /\ current_data'[kind'] = Loaded.data]_vars
    /\ [][(pc = "init_send" /\ ~is_watching /\ pc' # pc /\ receivers # {})
            => published' =
                Append(published, ClipEntry(current_data[kind], kind))]_vars

\* C19 witness: disable() took effect before the initial load of a kind, and
\* the content was loaded, cached and published with the flag false.
C19_Witness ==
    /\ outcome = "init_published_disabled"
    /\ ~is_watching
    /\ Consumed = 0
    /\ published # <<>>
    /\ published[Len(published)] = ClipEntry(current_data[kind], kind)

\* C20: a load that does not lead to a send (filtered content, an ignorable or
\* any other error, a duplicate) leaves the cache as it was; so a loop load
\* that returns the content of the latest entry published for the kind is
\* suppressed, whatever was dropped in between.
C20_DroppedLoadKeepsCache ==
    /\ [][(LoadStep /\ pc' \notin {"send", "init_send"})
            => /\ current_data' = current_data
               /\ published' = published]_vars
    /\ [][(LoadStep /\ pc = "load" /\ Loaded.tag = "Ok"
                /\ Len(Loaded.data) > opts.filter_min_size
                /\ PublishedOf(kind) # {}
                /\ Loaded.data = LastPublished(kind))
            => /\ pc' = "wait"
               /\ published' = published
               /\ current_data' = current_data]_vars

\* C20 witness: content was published for the kind, a later load for the kind
\* was dropped as filtered or ignorable, and the next load returned the
\* published content again and was suppressed.
C20_Witness ==
    /\ kind \in skipped
    /\ outcome = "duplicate"
    /\ pc = "wait"
    /\ PublishedOf(kind) # {}
    /\ lastLoad[kind].data = LastPublished(kind)
    /\ Len(published) = 1

\* C18: under fair scheduling of the task, the n-th notification the backend
\* emitted is eventually consumed by the loop unless the task ends, whatever
\* the flag and the watch set.
C18_StreamDrained ==
    \A n \in 1..MaxNotifs :
        (emitted >= n) ~> (Consumed >= n \/ pc = "done")

\* C18 witness: every notification emitted was consumed, one of them dropped
\* with the flag false and the last one dropped for a kind outside the watch
\* set.
C18_Witness ==
    /\ emitted = 2
    /\ Consumed = 2
    /\ discarded # {}
    /\ outcome = "discarded_unwatched"
    /\ pc = "wait"

\* the position of published at which followed receiver r was created, and how
\* many entries it has not read yet
Born(r) == rx[r].next - Len(rx[r].seen) - rx[r].lost
Backlog(r) == Len(published) - rx[r].next

C14_SendNeverStalls ==
    /\ [](pc = "send" => ENABLED Send)
    /\ [][(pc = "send" /\ pc' # pc /\ receivers # {}) =>
            /\ published' = Append(published, ClipEntry(new_data, kind))
            /\ pc' = "wait"
            /\ rx' = rx]_vars
    /\ [][\A r \in Followed \cap DOMAIN rx' :
            /\ (rx'[r] # rx[r] /\ Backlog(r) > 16) =>
                    rx'[r].lost > rx[r].lost
            /\ rx'[r].lost > rx[r].lost =>
                    /\ Backlog(r) > 16
                    /\ rx'[r].next = Len(published) - 16
                    /\ rx'[r].lost - rx[r].lost = rx'[r].next - rx[r].next
                    /\ rx'[r].seen = rx[r].seen]_vars

\* the latest send published although a receiver was 16 entries behind, and
\* that receiver then lost the oldest entry and has the newest 16 left
C14_Witness ==
    /\ outcome = "published"
    /\ \E r \in Followed : rx[r].lost > 0 /\ Backlog(r) = 16
====
